---- MODULE Spec2Model ----
(***************************************************************************)
(* A model of the utzip archive engine: the staging commit                 *)
(* (utils/common.rs safe_move_file), the name and date filters             *)
(* (apply_filters, match_pattern, filter_filesystem_files), the ZIP64      *)
(* extended-information codec, the per-entry FileOptions, the MS-DOS       *)
(* timestamps, the entry writer and its split volumes (zip.rs), and the    *)
(* command selection (cli.rs).                                             *)
(* Each subsystem has its own specification; the variables of the other    *)
(* subsystems stay at their idle values.                                   *)
(***************************************************************************)
EXTENDS Integers, Sequences, FiniteSets, TLC

VARIABLES
    fsFrom,     \* the staging file at path `from`: [exists, data]
    fsTo,       \* the file at the destination path `to`
    mvOrig,     \* the destination file as it was before safe_move_file ran
    mvStaged,   \* the staging file as it was before safe_move_file ran
    mvPc,       \* position inside safe_move_file
    zHdr,       \* a CentralDirectoryHeader (its ZIP64-relevant fields)
    zFlags,     \* the arguments of the last to_bytes call
    zBytes,     \* the bytes the last to_bytes call returned
    zParsed,    \* the Zip64ExtendedInfo from_bytes made of zBytes
    zNeeds,     \* the result of needs_zip64: "unset", "true", "false"
    zPc,        \* "idle", "built", "emitted", "parsed"
    zOptions,   \* the sizes ZipFile::options() reported, or NoSizes
    opts,       \* a FileOptions value
    oLast,      \* the last operation applied to opts
    oPath,      \* the path of the last set_file_path call
    fName,      \* the name being filtered
    fArgs,      \* the ZipArgs fields apply_filters reads
    fIsArchive, \* is_archive_file: the name is an old-archive entry
    fSelected,  \* the result of apply_filters: "unset", "true", "false"
    fAction,    \* what the delete/copy pass does with the entry
    mArgs,      \* the ZipArgs flags parse_args reads, and args.command
    mPath,      \* an archive-path: where it is present, mtimes, sizes
    mAction,    \* the action planned for mPath
    mPc,        \* "idle", "args", "exited", "parsed", "planned"
    eOpts,      \* the FileOptions an entry is started with
    eAsked,     \* a level was asked for with with_compression_level
    eCur,       \* the CurrentFile of the writer
    eEntry,     \* the finished entry: method and sizes
    ePc,        \* "idle", "opts", "writing", "done"
    sWriter,    \* the split writer: split size, closed volumes, bytes in the open one
    sRec,       \* the last record written: kind, first and last volume
    sPc,        \* "idle", "open", "closed"
    tZone,      \* the local time zone of the process
    tIn,        \* the local modification time of a file
    tPair,      \* the MS-DOS (time, date) pair made of tIn
    tOut,       \* the result of last_modified on tPair: [ok, dt]
    tPc,        \* "idle", "file", "encoded", "decoded"
    gName,      \* the name given to match_pattern
    gPattern,   \* the pattern given to match_pattern
    gNoWildcards,\* the no_wildcards argument
    gResult,    \* the result of match_pattern: "unset", "true", "false"
    gPc,        \* "idle", "call", "returned"
    cFiles,     \* file_selects: archive name -> path
    cArgs,      \* the ZipArgs fields filter_filesystem_files reads
    cResult,    \* the map filter_filesystem_files returned
    cPc,        \* "idle", "call", "returned"
    kWritten,   \* the method a writer encoded, or "foreign" for a code read from a file
    kCode,      \* the 16-bit compression code of a header
    kMethod,    \* the CompressionMethod decoded from kCode, or "unset"
    kPc,        \* "idle", "method", "code", "decoded"
    tmDir,      \* the temp directory: staging-file name -> the run that wrote it
    tmClock,    \* the system time, in nanoseconds since the epoch
    tmName,     \* per run: the name generate_temp_filename returned
    tmPc,       \* per run: "idle", "start", "named", "created"
    qArg,       \* the text given to -s or --ds
    qMin,       \* the min_size the value parser passes
    qBuild,     \* "debug" (overflow panics) or "release" (overflow wraps)
    qResult,    \* what parse_split_size_arg returned
    qPc         \* "idle", "call", "returned"

moveVars == <<fsFrom, fsTo, mvOrig, mvStaged, mvPc>>
zipVars == <<zHdr, zFlags, zBytes, zParsed, zNeeds, zPc, zOptions>>
optVars == <<opts, oLast, oPath>>
filterVars == <<fName, fArgs, fIsArchive, fSelected, fAction>>
modeVars == <<mArgs, mPath, mAction, mPc>>
entryVars == <<eOpts, eAsked, eCur, eEntry, ePc>>
splitVars == <<sWriter, sRec, sPc>>
timeVars == <<tZone, tIn, tPair, tOut, tPc>>
matchVars == <<gName, gPattern, gNoWildcards, gResult, gPc>>
selectVars == <<cFiles, cArgs, cResult, cPc>>
methodVars == <<kWritten, kCode, kMethod, kPc>>
tempVars == <<tmDir, tmClock, tmName, tmPc>>
sizeArgVars == <<qArg, qMin, qBuild, qResult, qPc>>

vars == <<moveVars, zipVars, optVars, filterVars, modeVars,
    entryVars, splitVars, timeVars, matchVars, selectVars, methodVars,
    tempVars, sizeArgVars>>

notMoveVars == <<zipVars, optVars, filterVars, modeVars, entryVars,
    splitVars, timeVars, matchVars, selectVars, methodVars, tempVars,
    sizeArgVars>>
notZipVars == <<moveVars, optVars, filterVars, modeVars, entryVars,
    splitVars, timeVars, matchVars, selectVars, methodVars, tempVars,
    sizeArgVars>>
notOptVars == <<moveVars, zipVars, filterVars, modeVars, entryVars,
    splitVars, timeVars, matchVars, selectVars, methodVars, tempVars,
    sizeArgVars>>
notFilterVars == <<moveVars, zipVars, optVars, modeVars, entryVars,
    splitVars, timeVars, matchVars, selectVars, methodVars, tempVars,
    sizeArgVars>>
notModeVars == <<moveVars, zipVars, optVars, filterVars, entryVars,
    splitVars, timeVars, matchVars, selectVars, methodVars, tempVars,
    sizeArgVars>>
notEntryVars == <<moveVars, zipVars, optVars, filterVars,
    modeVars, splitVars, timeVars, matchVars, selectVars, methodVars,
    tempVars, sizeArgVars>>
notSplitVars == <<moveVars, zipVars, optVars, filterVars,
    modeVars, entryVars, timeVars, matchVars, selectVars, methodVars,
    tempVars, sizeArgVars>>
notTimeVars == <<moveVars, zipVars, optVars, filterVars,
    modeVars, entryVars, splitVars, matchVars, selectVars, methodVars,
    tempVars, sizeArgVars>>
notMatchVars == <<moveVars, zipVars, optVars, filterVars,
    modeVars, entryVars, splitVars, timeVars, selectVars, methodVars,
    tempVars, sizeArgVars>>
notSelectVars == <<moveVars, zipVars, optVars, filterVars,
    modeVars, entryVars, splitVars, timeVars,
    matchVars, methodVars, tempVars, sizeArgVars>>
notMethodVars == <<moveVars, zipVars, optVars, filterVars,
    modeVars, entryVars, splitVars, timeVars,
    matchVars, selectVars, tempVars, sizeArgVars>>
notTempVars == <<moveVars, zipVars, optVars, filterVars,
    modeVars, entryVars, splitVars, timeVars,
    matchVars, selectVars, methodVars, sizeArgVars>>
notSizeArgVars == <<moveVars, zipVars, optVars, filterVars,
    modeVars, entryVars, splitVars, timeVars,
    matchVars, selectVars, methodVars, tempVars>>

(***************************************************************************)
(* Bounds                                                                  *)
(***************************************************************************)
MaxStagedChunks == 3
MaxOrigChunks == 2
\* The radix of one byte, scaled down from 256: a u16 is 2 digits, a u32 is
\* 4 digits and a u64 is 8 digits of this radix, little-endian.
ByteBase == 2
MaxNameLen == 2
\* The bytes of one entry's input.
MaxInput == 3
\* Split volumes: the largest split size, the largest unsplittable record
\* (local header, data descriptor, end record), the largest payload of one
\* entry and the number of volumes a run may close.
MaxSplitSize == 4
MaxRecordLen == 2
MaxPayload == 5
MaxClosedVolumes == 3
\* The days of the date filters: 1 .. MaxDate.
MaxDate == 3
\* The largest compression code a header of the model carries.
MaxMethodCode == 99
\* The last tick of the clock of the staging-file model.
MaxClock == 3
\* The longest size argument.
MaxArgLen == 4

(***************************************************************************)
(* Format codec: integers and the ZIP64 extended information               *)
(***************************************************************************)
RECURSIVE Pow(_, _)
Pow(b, n) == IF n = 0 THEN 1 ELSE b * Pow(b, n - 1)

U16Width == 2
U32Width == 4
U64Width == 8

MAX_ZIP_SIZE == Pow(ByteBase, U32Width) - 1
MAX_ZIP_ENTRIES == Pow(ByteBase, U16Width) - 1
U64Max == Pow(ByteBase, U64Width) - 1

\* v.to_le_bytes() of an unsigned integer of n bytes.
to_le_bytes(v, n) == [i \in 1..n |-> (v \div Pow(ByteBase, i - 1)) % ByteBase]

\* uN::from_le_bytes(b)
RECURSIVE from_le_bytes(_)
from_le_bytes(b) ==
    IF b = <<>> THEN 0 ELSE Head(b) + ByteBase * from_le_bytes(Tail(b))

None == [some |-> FALSE, val |-> 0]
Some(v) == [some |-> TRUE, val |-> v]

\* Zip64ExtendedInfo::new()
Zip64New ==
    [uncompressed_size |-> None, compressed_size |-> None,
     local_header_offset |-> None, disk_start_number |-> None]

\* Zip64ExtendedInfo::to_bytes(&self, uncompressed_max, compressed_max, offset_max)
to_bytes(self, uncompressed_max, compressed_max, offset_max) ==
    LET d1 == IF uncompressed_max /\ self.uncompressed_size.some
              THEN to_le_bytes(self.uncompressed_size.val, U64Width) ELSE <<>>
        d2 == IF compressed_max /\ self.compressed_size.some
              THEN to_le_bytes(self.compressed_size.val, U64Width) ELSE <<>>
        d3 == IF offset_max /\ self.local_header_offset.some
              THEN to_le_bytes(self.local_header_offset.val, U64Width) ELSE <<>>
        d4 == IF self.disk_start_number.some
              THEN to_le_bytes(self.disk_start_number.val, U32Width) ELSE <<>>
    IN d1 \o d2 \o d3 \o d4

\* Zip64ExtendedInfo::from_bytes(data): the fields are taken by position,
\* as many as the length of the data allows.
from_bytes(data) ==
    LET n == Len(data)
        w == U64Width
        f1 == IF n >= w THEN Some(from_le_bytes(SubSeq(data, 1, w))) ELSE None
        f2 == IF n >= 2 * w
              THEN Some(from_le_bytes(SubSeq(data, w + 1, 2 * w))) ELSE None
        f3 == IF n >= 3 * w
              THEN Some(from_le_bytes(SubSeq(data, 2 * w + 1, 3 * w))) ELSE None
        f4 == IF n >= 3 * w + U32Width
              THEN Some(from_le_bytes(SubSeq(data, 3 * w + 1, 3 * w + U32Width)))
              ELSE None
    IN [uncompressed_size |-> f1, compressed_size |-> f2,
        local_header_offset |-> f3, disk_start_number |-> f4]

\* CentralDirectoryHeader::get_uncompressed_size
get_uncompressed_size(h) ==
    IF h.zip64_present /\ h.zip64.uncompressed_size.some
    THEN h.zip64.uncompressed_size.val ELSE h.uncompressed_size

\* A get_compressed_size that forgets the ZIP64 extended information.
get_compressed_size_slot_only(h) == h.compressed_size

\* CentralDirectoryHeader::get_compressed_size
get_compressed_size(h) ==
    IF h.zip64_present /\ h.zip64.compressed_size.some
    THEN h.zip64.compressed_size.val ELSE h.compressed_size

\* CentralDirectoryHeader::get_local_header_offset
get_local_header_offset(h) ==
    IF h.zip64_present /\ h.zip64.local_header_offset.some
    THEN h.zip64.local_header_offset.val ELSE h.local_header_offset

\* CentralDirectoryHeader::needs_zip64
needs_zip64(h) ==
    \/ get_uncompressed_size(h) > MAX_ZIP_SIZE
    \/ get_compressed_size(h) > MAX_ZIP_SIZE
    \/ get_local_header_offset(h) > MAX_ZIP_SIZE

\* ZipFile::origin_size
origin_size(h) == get_uncompressed_size(h)

\* ZipFile::compressed_size
compressed_size(h) == get_compressed_size(h)

\* ZipFile::options: the sizes are taken from the header's 32-bit slots
\* (compress_size is a u32, uncompress_size the slot widened to u64).
options(h) ==
    [set |-> TRUE,
     compress_size |-> h.compressed_size,
     uncompress_size |-> h.uncompressed_size]

NoSizes == [set |-> FALSE, compress_size |-> 0, uncompress_size |-> 0]

\* The values the model draws for 32-bit slots and 64-bit fields.
Slot32 == {1, MAX_ZIP_SIZE}
Value64 == {MAX_ZIP_SIZE, MAX_ZIP_SIZE + 1, U64Max}
Opt64 == {None} \cup {Some(v) : v \in Value64}
OptDisk == {None, Some(0)}

Zip64Infos ==
    [uncompressed_size : Opt64, compressed_size : Opt64,
     local_header_offset : Opt64, disk_start_number : OptDisk]

NoFlags == [u |-> FALSE, c |-> FALSE, o |-> FALSE]

(***************************************************************************)
(* Staging and commit: safe_move_file                                      *)
(***************************************************************************)
Absent == [exists |-> FALSE, data |-> <<>>]
FileOf(d) == [exists |-> TRUE, data |-> d]
Chunks(tag, n) == [i \in 1..n |-> <<tag, i>>]

(***************************************************************************)
(* FileOptions (zip.rs) and get_file_modification_time (common.rs)         *)
(***************************************************************************)
\* The filesystem objects set_file_path is called on.  `ext` is what
\* Path::extension() returns ("" for None), `mtime` the local modification
\* time, `unix_mode` the st_mode of the object.
ModernTime == [year |-> 2024, month |-> 5, day |-> 1,
               hour |-> 12, minute |-> 0, second |-> 7]
PreEpochTime == [year |-> 1969, month |-> 12, day |-> 31,
                 hour |-> 23, minute |-> 59, second |-> 59]

FileSizes == {0, 100, 101, 1024, 1025, 10240, 10241, 102400, 102401}

\* crc32fast over the content: 0 for the empty file.
CrcOf(size) == IF size = 0 THEN 0 ELSE 1 + (size % 2)

MissingPath ==
    [name |-> "gone", exists |-> FALSE, kind |-> "none", ext |-> "",
     size |-> 0, crc |-> 0, readable |-> FALSE, mtime |-> ModernTime,
     unix_mode |-> 0]

DirPaths ==
    {[name |-> n[1], exists |-> TRUE, kind |-> "dir", ext |-> n[2],
      size |-> 0, crc |-> 0, readable |-> TRUE, mtime |-> ModernTime,
      unix_mode |-> 16877] : n \in {<<"d", "">>, <<"d.zip", "zip">>}}

FilePaths ==
    {[name |-> "a.txt", exists |-> TRUE, kind |-> "file", ext |-> "txt",
      size |-> sz, crc |-> CrcOf(sz), readable |-> TRUE, mtime |-> ModernTime,
      unix_mode |-> 33188] : sz \in FileSizes}

OddPaths ==
    {[name |-> "a", exists |-> TRUE, kind |-> "file", ext |-> "",
      size |-> 101, crc |-> CrcOf(101), readable |-> TRUE,
      mtime |-> ModernTime, unix_mode |-> 33188],
     [name |-> "a.zip", exists |-> TRUE, kind |-> "file", ext |-> "zip",
      size |-> 1025, crc |-> CrcOf(1025), readable |-> TRUE,
      mtime |-> ModernTime, unix_mode |-> 33188],
     [name |-> "locked.txt", exists |-> TRUE, kind |-> "file", ext |-> "txt",
      size |-> 10241, crc |-> CrcOf(10241), readable |-> FALSE,
      mtime |-> ModernTime, unix_mode |-> 33188],
     [name |-> "old.txt", exists |-> TRUE, kind |-> "file", ext |-> "txt",
      size |-> 101, crc |-> CrcOf(101), readable |-> TRUE,
      mtime |-> PreEpochTime, unix_mode |-> 33188],
     [name |-> "fifo", exists |-> TRUE, kind |-> "other", ext |-> "",
      size |-> 0, crc |-> 0, readable |-> TRUE, mtime |-> ModernTime,
      unix_mode |-> 4516]}

Paths == {MissingPath} \cup DirPaths \cup FilePaths \cup OddPaths

\* get_file_modification_time: the MS-DOS (time, date) pair, in u16
\* arithmetic ((year - 1980) as u16 wraps, << drops the bits shifted out).
get_file_modification_time(p) ==
    LET m == p.mtime
        time == ((m.hour * 2048) % 65536) + (m.minute * 32) + (m.second \div 2)
        date == ((((m.year - 1980) % 65536) * 512) % 65536) + (m.month * 32) + m.day
    IN <<time, date>>

DefaultNoCompress == {".zip", ".Z", ".zoo", ".arc", ".arj"}

\* FileOptions::new()
FileOptionsNew ==
    [compression_method |-> "Deflated",
     compression_level |-> 6,
     modification_time |-> <<>>,
     external_attr |-> [unix |-> 0, dos |-> 0],
     extra_field |-> <<>>,
     no_extra_field |-> FALSE,
     no_compress_extensions |-> DefaultNoCompress,
     uncompress_size |-> 0,
     crc32 |-> 0,
     compression_level_specified |-> FALSE]

\* A with_compression that resets the level whether or not it was specified.
with_compression_unguarded(self, method) ==
    [self EXCEPT !.compression_method = method,
                 !.compression_level =
                     CASE method = "Stored" -> 0
                       [] method = "Deflated" -> 6
                       [] method = "Bzip2" -> 9]

\* FileOptions::with_compression
with_compression(self, method) ==
    LET s1 == [self EXCEPT !.compression_method = method]
    IN IF ~self.compression_level_specified
       THEN [s1 EXCEPT !.compression_level =
                CASE method = "Stored" -> 0
                  [] method = "Deflated" -> 6
                  [] method = "Bzip2" -> 9]
       ELSE s1

\* A with_compression_level that sets the level and leaves the flag alone.
with_compression_level_unflagged(self, level) ==
    [self EXCEPT !.compression_level = level]

\* FileOptions::with_compression_level
with_compression_level(self, level) ==
    [self EXCEPT !.compression_level = level,
                 !.compression_level_specified = TRUE]

\* The size bands with their upper ends left out (< for <=).
optimize_compression_level_for_size_exclusive(self, file_size) ==
    IF self.compression_level_specified
    THEN self
    ELSE [self EXCEPT !.compression_level =
             IF file_size < 100 THEN 1
             ELSE IF file_size < 1024 THEN 1
             ELSE IF file_size < 10240 THEN 2
             ELSE IF file_size < 102400 THEN 3
             ELSE 6]

\* FileOptions::optimize_compression_level_for_size
optimize_compression_level_for_size(self, file_size) ==
    IF self.compression_level_specified
    THEN self
    ELSE [self EXCEPT !.compression_level =
             IF file_size <= 100 THEN 1
             ELSE IF file_size <= 1024 THEN 1
             ELSE IF file_size <= 10240 THEN 2
             ELSE IF file_size <= 102400 THEN 3
             ELSE 6]

\* FileOptions::with_file_attrs: Unix mode in the high 16 bits, the DOS
\* attribute in the low 16 bits (0x10 directory, 0x20 archive).
with_file_attrs(self, p) ==
    [self EXCEPT !.external_attr =
        [unix |-> p.unix_mode % 65536,
         dos |-> IF p.kind = "dir" THEN 16 ELSE 32]]

\* FileOptions::set_ut_extra_field: tag 0x5455, size 5, flags 1, modtime.
set_ut_extra_field(self, p) ==
    [self EXCEPT !.extra_field = <<"UT", 5, 1, p.mtime>>]

\* The extension looked up without the leading dot.
DottedExtension_undotted(p) == p.ext

\* The extension set_file_path looks up: "" or "." followed by the extension.
DottedExtension(p) ==
    CASE p.ext = "" -> ""
      [] p.ext = "txt" -> ".txt"
      [] p.ext = "zip" -> ".zip"

\* FileOptions::set_file_path: [ok, opts].  An error return leaves the
\* assignments made before it in place.
set_file_path(self, p) ==
    IF ~p.exists THEN [ok |-> FALSE, opts |-> self]
    ELSE
    LET s1 == [self EXCEPT !.modification_time = get_file_modification_time(p)]
    IN IF ~s1.no_extra_field /\ p.mtime.year < 1970
       THEN [ok |-> FALSE, opts |-> s1]
       ELSE
       LET s2 == IF ~s1.no_extra_field THEN set_ut_extra_field(s1, p) ELSE s1
           s3 == with_file_attrs(s2, p)
           s4 == IF p.kind = "dir" THEN with_compression(s3, "Stored") ELSE s3
           s5 == IF DottedExtension(p) \in s4.no_compress_extensions
                 THEN with_compression(s4, "Stored") ELSE s4
       IN IF p.kind # "file" THEN [ok |-> TRUE, opts |-> s5]
          ELSE
          LET s6 == [s5 EXCEPT !.uncompress_size = p.size]
          IN IF ~p.readable THEN [ok |-> FALSE, opts |-> s6]
             ELSE
             LET s7 == [s6 EXCEPT !.crc32 = p.crc]
                 s8 == IF s7.compression_method = "Deflated"
                       THEN optimize_compression_level_for_size(s7, p.size)
                       ELSE s7
             IN [ok |-> TRUE, opts |-> s8]

CompressionMethods == {"Stored", "Deflated", "Bzip2"}
\* The values of the public field no_compress_extensions: the default of
\* FileOptions::new and a set a caller configured.
NoCompressSets == {DefaultNoCompress, {".txt"}}
\* The levels of the command line, -0 .. -9.
Levels == 0..9

(***************************************************************************)
(* Selection: match_pattern and apply_filters (common.rs)                  *)
(***************************************************************************)
\* Names and patterns are sequences of one-character strings.
RECURSIVE SeqsUpTo(_, _)
SeqsUpTo(S, n) ==
    IF n = 0 THEN {<<>>}
    ELSE LET shorter == SeqsUpTo(S, n - 1)
         IN shorter \cup {Append(s, c) : s \in shorter, c \in S}

\* pattern.replace('*', ".*").replace('?', "."): the text of the regex.
RECURSIVE RegexText(_)
RegexText(pattern) ==
    IF pattern = <<>> THEN <<>>
    ELSE (CASE Head(pattern) = "*" -> <<".", "*">>
            [] Head(pattern) = "?" -> <<".">>
            [] OTHER -> <<Head(pattern)>>) \o RegexText(Tail(pattern))

\* Regex::new("^...$") fails on an unclosed bracket ("]" is not a
\* character of the model's patterns).
RegexCompiles(re) == \A i \in 1..Len(re) : re[i] # "["

\* One regex atom against one character: "." is any character.
AtomMatches(atom, c) == atom = "." \/ atom = c

\* regex.is_match(name) for the anchored regex: an atom, or an atom
\* followed by "*" (zero or more repetitions).
RECURSIVE RegexIsMatch(_, _)
RegexIsMatch(re, s) ==
    IF re = <<>> THEN s = <<>>
    ELSE IF Len(re) >= 2 /\ re[2] = "*"
    THEN \/ RegexIsMatch(SubSeq(re, 3, Len(re)), s)
         \/ (s # <<>> /\ AtomMatches(re[1], Head(s)) /\ RegexIsMatch(re, Tail(s)))
    ELSE s # <<>> /\ AtomMatches(re[1], Head(s)) /\ RegexIsMatch(Tail(re), Tail(s))

\* match_pattern(name, pattern, no_wildcards)
match_pattern(name, pattern, no_wildcards) ==
    IF no_wildcards THEN name = pattern
    ELSE LET re == RegexText(pattern)
         IN IF RegexCompiles(re) THEN RegexIsMatch(re, name) ELSE FALSE

\* s.matches('/').count()
RECURSIVE CountSlashes(_)
CountSlashes(s) ==
    IF s = <<>> THEN 0
    ELSE (IF Head(s) = "/" THEN 1 ELSE 0) + CountSlashes(Tail(s))

\* p.contains('*') || p.contains('?')
HasWildcard(p) == \E i \in 1..Len(p) : p[i] \in {"*", "?"}

\* The closure apply_filters gives to any() for a filesystem candidate.
BoundaryMatch(name, p, args) ==
    IF args.no_wildcards_boundary /\ HasWildcard(p)
    THEN IF CountSlashes(name) = CountSlashes(p)
         THEN match_pattern(name, p, args.no_wildcards)
         ELSE FALSE
    ELSE match_pattern(name, p, args.no_wildcards)

\* An apply_filters whose delete branch also honours the include list.
apply_filters_delete_with_include(name, args, is_archive_file) ==
    IF is_archive_file /\ args.command = "Delete"
    THEN /\ (args.include = {} \/
             \E p \in args.include : match_pattern(name, p, args.no_wildcards))
         /\ \E p \in args.exclude : match_pattern(name, p, args.no_wildcards)
    ELSE IF is_archive_file /\ args.command = "Copy"
    THEN ~(\E p \in args.exclude : match_pattern(name, p, args.no_wildcards))
    ELSE TRUE

\* An apply_filters whose copy branch forgets the exclude list.
apply_filters_copy_without_exclude(name, args, is_archive_file) ==
    IF is_archive_file /\ args.command = "Delete"
    THEN \E p \in args.exclude : match_pattern(name, p, args.no_wildcards)
    ELSE args.include = {} \/
         \E p \in args.include : match_pattern(name, p, args.no_wildcards)

\* apply_filters(name, args, is_archive_file)
apply_filters(name, args, is_archive_file) ==
    IF is_archive_file
    THEN IF args.command = "Delete"
         THEN \E p \in args.exclude : match_pattern(name, p, args.no_wildcards)
         ELSE IF args.command = "Copy"
         THEN LET included ==
                      args.include = {} \/
                      \E p \in args.include :
                          match_pattern(name, p, args.no_wildcards)
                  excluded ==
                      \E p \in args.exclude :
                          match_pattern(name, p, args.no_wildcards)
              IN included /\ ~excluded
         ELSE TRUE
    ELSE LET included ==
                 args.include = {} \/
                 \E p \in args.include : BoundaryMatch(name, p, args)
             excluded == \E p \in args.exclude : BoundaryMatch(name, p, args)
         IN included /\ ~excluded

\* What the delete and copy passes do with an old-archive entry, given the
\* answer of apply_filters (section 4.6 of the specification).
ArchiveEntryAction(name, args) ==
    CASE args.command = "Delete" ->
             IF apply_filters(name, args, TRUE) THEN "Delete" ELSE "CopyRaw"
      [] args.command = "Copy" ->
             IF apply_filters(name, args, TRUE) THEN "CopyRaw" ELSE "Omit"
      [] OTHER -> "CopyRaw"

NameChars == {"a", "b", "/"}
Names == SeqsUpTo(NameChars, MaxNameLen) \ {<<>>}
FilterPatterns == {<<"a">>, <<"*", "a">>, <<"?">>}
FilterCommands == {"Add", "Delete", "Copy"}

(***************************************************************************)
(* Command selection (cli.rs parse_args) and the mode decision table       *)
(***************************************************************************)
\* A parse_args that does not route -f (freshen) to the Update command.
parse_args_without_freshen(a) ==
    IF a.delete THEN "Delete"
    ELSE IF a.list THEN "List"
    ELSE IF a.update \/ a.filesync THEN "Update"
    ELSE IF a.copy THEN "Copy"
    ELSE IF a.test THEN (IF a.has_files THEN "Add" ELSE "Test")
    ELSE IF a.fix THEN "Fix"
    ELSE IF a.adjust THEN "Adjust"
    ELSE "Add"

\* A parse_args that looks at the list flags before the delete flag.
parse_args_list_first(a) ==
    IF a.list THEN "List"
    ELSE IF a.delete THEN "Delete"
    ELSE IF a.update \/ a.filesync \/ a.freshen THEN "Update"
    ELSE IF a.copy THEN "Copy"
    ELSE IF a.test THEN (IF a.has_files THEN "Add" ELSE "Test")
    ELSE IF a.fix THEN "Fix"
    ELSE IF a.adjust THEN "Adjust"
    ELSE "Add"

\* parse_args: the command chosen from the flags.  `list` stands for
\* --sf/--su/--sU, `test` for -T/--TT, `has_files` for !args.files.is_empty(),
\* `fix` for -F/--FF, `adjust` for -A/-J.
parse_args(a) ==
    IF a.delete THEN "Delete"
    ELSE IF a.list THEN "List"
    ELSE IF a.update \/ a.filesync \/ a.freshen THEN "Update"
    ELSE IF a.copy THEN "Copy"
    ELSE IF a.test THEN (IF a.has_files THEN "Add" ELSE "Test")
    ELSE IF a.fix THEN "Fix"
    ELSE IF a.adjust THEN "Adjust"
    ELSE "Add"

\* BasicModeOptions is a clap group with multiple = false: at most one of
\* -u, -f, --FS, -d, -U is given.
BasicModes == {"none", "update", "freshen", "filesync", "delete", "copy"}

ArgsOf(mode, list, test, has_files, fix, adjust, help) ==
    [update |-> mode = "update", freshen |-> mode = "freshen",
     filesync |-> mode = "filesync", delete |-> mode = "delete",
     copy |-> mode = "copy", list |-> list, test |-> test,
     has_files |-> has_files, fix |-> fix, adjust |-> adjust,
     help |-> help, command |-> "Add"]

\* The row of the decision table a run uses: the Update command stands for
\* update, freshen and filesync, told apart by the mode flags.
TableRow(a) ==
    IF a.command = "Update"
    THEN (IF a.freshen THEN "freshen"
          ELSE IF a.filesync THEN "filesync" ELSE "update")
    ELSE "add"

\* The decision table of section 4.6 for one archive-path.
PlanAction(row, p) ==
    IF p.on_fs /\ ~p.in_archive
    THEN (IF row = "freshen" THEN "Skip" ELSE "Add")
    ELSE IF ~p.on_fs /\ p.in_archive
    THEN (IF row = "filesync" THEN "Delete" ELSE "CopyRaw")
    ELSE CASE row = "add" ->
                  IF p.fs_mtime # p.entry_mtime \/ p.fs_size # p.entry_size
                  THEN "ReCompress" ELSE "CopyRaw"
           [] row \in {"update", "freshen"} ->
                  IF p.fs_mtime > p.entry_mtime THEN "ReCompress" ELSE "CopyRaw"
           [] row = "filesync" ->
                  IF p.fs_mtime # p.entry_mtime \/ p.fs_size # p.entry_size
                  THEN "ReCompress" ELSE "CopyRaw"

\* The archive-paths of the model: the entry has mtime 2 and size 1.
PlanPaths ==
    {p \in [on_fs : BOOLEAN, in_archive : BOOLEAN, fs_mtime : 1..3,
            entry_mtime : {2}, fs_size : 1..2, entry_size : {1}] :
        p.on_fs \/ p.in_archive}

(***************************************************************************)
(* The entry writer: CurrentFile (zip.rs) and the auto-store fallback      *)
(***************************************************************************)
NoCurrentFile ==
    [compression |-> "Stored", original_compression |-> "Stored",
     compression_level_specified |-> FALSE,
     bytes_written |-> 0, encoded |-> 0, original_data_buffer |-> 0]

NoEntry == [method |-> "Stored", compress_size |-> 0, uncompress_size |-> 0]

\* The CurrentFile a writer starts for an entry with these FileOptions: the
\* method, the flag that controls the switch to Stored, an empty buffer.
start_file(file_options) ==
    [compression |-> file_options.compression_method,
     original_compression |-> file_options.compression_method,
     compression_level_specified |-> file_options.compression_level_specified,
     bytes_written |-> 0, encoded |-> 0, original_data_buffer |-> 0]

\* What the encoder can make of n more input bytes: a Stored entry passes
\* them through, a compressor gives any count from 0 up to an expansion of
\* one byte.
EncoderOutputs(method, n) == IF method = "Stored" THEN {n} ELSE 0..(n + 1)

\* One write: the CRC and byte count over the input, the original bytes kept
\* for a retry, the encoder's output to the sink.
write_data(cur, n, out) ==
    [cur EXCEPT !.bytes_written = @ + n,
                !.original_data_buffer = @ + n,
                !.encoded = @ + out]

\* Finishing the entry.  A Deflated entry whose output is larger than its
\* input is rewound and re-emitted from the buffered original bytes with
\* method Stored, unless the level was specified externally.
finish_file(cur) ==
    IF /\ cur.original_compression = "Deflated"
       /\ ~cur.compression_level_specified
       /\ cur.encoded > cur.bytes_written
    THEN [method |-> "Stored",
          compress_size |-> cur.original_data_buffer,
          uncompress_size |-> cur.bytes_written]
    ELSE [method |-> cur.compression,
          compress_size |-> cur.encoded,
          uncompress_size |-> cur.bytes_written]

(***************************************************************************)
(* The split writer: ZipWriter's volumes                                   *)
(***************************************************************************)
NoRecord == [kind |-> "none", len |-> 0, first |-> 0, last |-> 0]

\* The index of the open volume (the closed ones are 1 .. Len(vols)).
current_split_index(w) == Len(w.vols) + 1

\* Closing the open volume and opening the next; `next` is the length of
\* the unsplittable record that forced the rollover, 0 when the volume
\* was full.
rotate(w, next) ==
    [w EXCEPT !.vols = Append(@, [bytes |-> w.cur, next_record |-> next]),
              !.cur = 0]

\* A record that always goes across the boundary like payload.
write_record_unrotated(w, n) ==
    IF w.cur + n > w.split_size
    THEN [rotate([w EXCEPT !.cur = w.split_size], 0)
             EXCEPT !.cur = w.cur + n - w.split_size]
    ELSE [w EXCEPT !.cur = @ + n]

\* An unsplittable record of n bytes: if it would cross the boundary the
\* open volume is closed first.
write_record(w, n) ==
    IF w.cur + n > w.split_size
    THEN [rotate(w, n) EXCEPT !.cur = n]
    ELSE [w EXCEPT !.cur = @ + n]

\* Payload of n bytes: it fills the open volume, rotates, and goes on.
RECURSIVE write_payload(_, _)
write_payload(w, n) ==
    IF n = 0 THEN w
    ELSE IF w.cur = w.split_size THEN write_payload(rotate(w, 0), n)
    ELSE LET k == IF n < w.split_size - w.cur THEN n
                  ELSE w.split_size - w.cur
         IN write_payload([w EXCEPT !.cur = @ + k], n - k)

\* The volume in which the next byte written lands.
NextByteVolume(w) ==
    IF w.cur = w.split_size THEN current_split_index(w) + 1
    ELSE current_split_index(w)

RecordKinds == {"local_header", "data_descriptor", "central_record"}
SplitSizes == MaxRecordLen..MaxSplitSize

(***************************************************************************)
(* MS-DOS timestamps: ZipFile::last_modified (zip.rs)                      *)
(***************************************************************************)
IsLeapYear(y) == (y % 4 = 0 /\ y % 100 # 0) \/ y % 400 = 0

DaysInMonth(y, m) ==
    CASE m \in {1, 3, 5, 7, 8, 10, 12} -> 31
      [] m \in {4, 6, 9, 11} -> 30
      [] m = 2 -> IF IsLeapYear(y) THEN 29 ELSE 28
      [] OTHER -> 0

\* The time zones of the model: one without daylight saving time, and one
\* that leaves it on 2024-11-03 at 02:00, so that the local hour
\* 01:00 - 01:59 of that day happens twice.
TimeZones == {"UTC", "America/New_York"}

\* Local.with_ymd_and_hms(...): "none" for a date-time that does not exist,
\* "ambiguous" for a local time that happens twice, "single" otherwise.
with_ymd_and_hms(zone, year, month, day, hour, minute, second) ==
    IF \/ month \notin 1..12
       \/ day \notin 1..DaysInMonth(year, month)
       \/ hour > 23 \/ minute > 59 \/ second > 59
    THEN "none"
    ELSE IF /\ zone = "America/New_York"
            /\ year = 2024 /\ month = 11 /\ day = 3 /\ hour = 1
    THEN "ambiguous"
    ELSE "single"

\* ZipFile::last_modified on header.mod_time, header.mod_date: [ok, dt].
last_modified(zone, pair) ==
    LET time == pair[1]
        date == pair[2]
        hour == (time \div 2048) % 32
        minute == (time \div 32) % 64
        second == (time % 32) * 2
        day == date % 32
        month == (date \div 32) % 16
        year == (date \div 512) + 1980
        dt == [year |-> year, month |-> month, day |-> day,
               hour |-> hour, minute |-> minute, second |-> second]
    IN [ok |-> with_ymd_and_hms(zone, year, month, day, hour, minute, second)
                  = "single",
        dt |-> dt]

\* The modification times of the model's files: real local date-times.
FileTimes ==
    {t \in [year : {1969, 1979, 1980, 2024, 2107}, month : {1, 11, 12},
            day : {1, 3, 31}, hour : {0, 1, 23}, minute : {0, 59},
            second : {0, 1, 58, 59}] :
        t.day <= DaysInMonth(t.year, t.month)}

(***************************************************************************)
(* The names and patterns match_pattern is called with                     *)
(***************************************************************************)
MatchNameChars == {"a", "A", ".", "/"}
MatchPatternChars == {"a", ".", "*", "?", "["}
MatchNames == SeqsUpTo(MatchNameChars, MaxNameLen) \ {<<>>}
MatchPatterns == SeqsUpTo(MatchPatternChars, MaxNameLen) \ {<<>>}

(***************************************************************************)
(* Filesystem candidates: filter_filesystem_files, should_include_file     *)
(***************************************************************************)
\* check_after_date
check_after_date(modified, after) == ~(modified < after)

\* A check_before_date that keeps the date `before` itself.
check_before_date_inclusive(modified, before) == ~(modified > before)

\* check_before_date
check_before_date(modified, before) == ~(modified >= before)

\* check_date_range
check_date_range(modified, after, before) ==
    ~(modified < after \/ modified >= before)

\* should_include_file(name, path, args); path.modified is what
\* get_file_modification_date(path) returns.
should_include_file(name, path, args) ==
    IF ~apply_filters(name, args, FALSE) THEN FALSE
    ELSE IF ~path.modified.some THEN FALSE
    ELSE LET modified == path.modified.val
             after == args.after_date
             before == args.before_date
         IN CASE after.some /\ ~before.some ->
                     check_after_date(modified, after.val)
              [] ~after.some /\ before.some ->
                     check_before_date(modified, before.val)
              [] after.some /\ before.some ->
                     check_date_range(modified, after.val, before.val)
              [] OTHER -> TRUE

\* A filter_filesystem_files whose loop inserts every entry.
filter_filesystem_files_keep_all(file_selects, args) == file_selects

\* filter_filesystem_files(file_selects, args): the entries whose path
\* starts with "__ZIP_ENTRY__:" and those should_include_file accepts.
filter_filesystem_files(file_selects, args) ==
    LET kept == {name \in DOMAIN file_selects :
                    \/ file_selects[name].zip_entry
                    \/ should_include_file(name, file_selects[name], args)}
    IN [name \in kept |-> file_selects[name]]

Dates == 1..MaxDate
OptDates == {None} \cup {Some(d) : d \in Dates}

\* The paths of file_selects: a marked archive entry, or a filesystem path
\* with the modification date metadata gives (None when it cannot be read).
CandidatePaths ==
    {[zip_entry |-> TRUE, modified |-> None]}
        \cup {[zip_entry |-> FALSE, modified |-> m] : m \in OptDates}

CandidateNames == {<<"a">>, <<"/", "a">>}
CandidatePatterns == {<<"a">>, <<"*", "a">>}
CandidateMaps ==
    UNION {[names -> CandidatePaths] : names \in SUBSET CandidateNames}

(***************************************************************************)
(* CompressionMethod (zip.rs)                                              *)
(***************************************************************************)
\* `self as u16`: Stored = 0, Deflated = 8, Bzip2 = 12.
MethodCode(method) ==
    CASE method = "Stored" -> 0
      [] method = "Deflated" -> 8
      [] method = "Bzip2" -> 12

\* CompressionMethod::from(num)
CompressionMethodFrom(num) ==
    CASE num = 0 -> "Stored"
      [] num = 8 -> "Deflated"
      [] num = 12 -> "Bzip2"
      [] OTHER -> "Stored"

MethodCodes == 0..MaxMethodCode

(***************************************************************************)
(* Staging-file names: generate_temp_filename (common.rs)                  *)
(***************************************************************************)
RECURSIVE BitXor(_, _)
BitXor(a, b) ==
    IF a = 0 /\ b = 0 THEN 0
    ELSE (((a % 2) + (b % 2)) % 2) + 2 * BitXor(a \div 2, b \div 2)

RECURSIVE BitAnd(_, _)
BitAnd(a, b) ==
    IF a = 0 \/ b = 0 THEN 0
    ELSE ((a % 2) * (b % 2)) + 2 * BitAnd(a \div 2, b \div 2)

\* 0xFFFFFF: three bytes of ones.
TempNameMask == Pow(ByteBase, 3) - 1

\* generate_temp_filename: "zi" and the six hex digits of
\* (pid ^ (nanos % 0xFFFFFF)) & 0xFFFFFF.
generate_temp_filename(pid, now) ==
    LET timestamp_part == now % TempNameMask
    IN BitAnd(BitXor(pid, timestamp_part), TempNameMask)

\* The process ids of the two runs.
Pids == {5, 6}

\* The temp directory before the runs: empty, or one staging file of an
\* earlier run (written by pid 0).
StartingTempDirs ==
    {<<>>} \cup {[n \in {name} |-> 0] : name \in 0..TempNameMask}

(***************************************************************************)
(* Split sizes on the command line: parse_split_size_arg (cli.rs)          *)
(***************************************************************************)
\* 1024, scaled to one digit of the u64.
Kilo == ByteBase

\* 32 * 1024 (--ds) and 64 * 1024 (-s), scaled by 32.
DotMinSize == 1 * Kilo
SplitMinSize == 2 * Kilo

\* The characters of an argument.  "KELVIN" is U+212A, "ARABIC_1" is U+0661.
SizeArgChars ==
    {"0", "1", "3", "7", "ARABIC_1", "k", "K", "KELVIN", "m", "g", "t", "x"}

SizeArgs == SeqsUpTo(SizeArgChars, MaxArgLen)

\* \d of the regex crate: any Unicode decimal digit.
RegexDigit(c) == c \in {"0", "1", "2", "3", "4", "5", "6", "7", "8", "9", "ARABIC_1"}

\* (?i)[kmgt]: Unicode simple case folding, so K (U+212A) folds to k.
RegexUnit(c) == c \in {"k", "K", "KELVIN", "m", "M", "g", "G", "t", "T"}

\* str::to_lowercase of the captured unit.
to_lowercase(c) ==
    CASE c \in {"K", "KELVIN"} -> "k"
      [] c = "M" -> "m"
      [] c = "G" -> "g"
      [] c = "T" -> "t"
      [] OTHER -> c

\* ^(\d+)([kmgt]?)$ : the two capture groups, or no match.
captures(s) ==
    LET n == Len(s)
        allDigits(t) == Len(t) > 0 /\ \A i \in 1..Len(t) : RegexDigit(t[i])
    IN IF n > 0 /\ allDigits(s)
       THEN [matched |-> TRUE, num |-> s, unit |-> ""]
       ELSE IF n > 1 /\ RegexUnit(s[n]) /\ allDigits(SubSeq(s, 1, n - 1))
       THEN [matched |-> TRUE, num |-> SubSeq(s, 1, n - 1), unit |-> s[n]]
       ELSE [matched |-> FALSE, num |-> <<>>, unit |-> ""]

DigitValue(c) ==
    CASE c = "0" -> 0 [] c = "1" -> 1 [] c = "2" -> 2 [] c = "3" -> 3
      [] c = "4" -> 4 [] c = "5" -> 5 [] c = "6" -> 6 [] c = "7" -> 7
      [] c = "8" -> 8 [] c = "9" -> 9

RECURSIVE DecimalValue(_)
DecimalValue(t) ==
    IF t = <<>> THEN 0
    ELSE 10 * DecimalValue(SubSeq(t, 1, Len(t) - 1)) + DigitValue(t[Len(t)])

\* str::parse::<u64>: ASCII digits only, and an error when the value does
\* not fit.
parse_u64(t) ==
    IF \E i \in 1..Len(t) : t[i] = "ARABIC_1" THEN [ok |-> FALSE, val |-> 0]
    ELSE IF DecimalValue(t) > U64Max THEN [ok |-> FALSE, val |-> 0]
    ELSE [ok |-> TRUE, val |-> DecimalValue(t)]

\* num * 1024 * ... * 1024 (n factors) on u64: the first product that
\* does not fit panics in a build with overflow checks and wraps in one
\* without.
RECURSIVE mul_1024(_, _, _)
mul_1024(num, n, build) ==
    IF n = 0 THEN [panic |-> FALSE, val |-> num]
    ELSE IF num * Kilo > U64Max
         THEN IF build = "debug" THEN [panic |-> TRUE, val |-> 0]
              ELSE mul_1024((num * Kilo) % (U64Max + 1), n - 1, build)
         ELSE mul_1024(num * Kilo, n - 1, build)

\* The number of 1024 factors of a unit; none means m.
UnitFactors(unit) ==
    CASE unit = "k" -> 1
      [] unit \in {"m", ""} -> 2
      [] unit = "g" -> 3
      [] unit = "t" -> 4

NoSizeResult == [kind |-> "none", size |-> 0]

parse_split_size_arg(s, min_size, build) ==
    LET caps == captures(s)
        num == parse_u64(caps.num)
        unit == to_lowercase(caps.unit)
        size == mul_1024(num.val, UnitFactors(unit), build)
    IN IF ~caps.matched THEN [kind |-> "err", size |-> 0]
       ELSE IF ~num.ok THEN [kind |-> "err", size |-> 0]
       ELSE IF size.panic THEN [kind |-> "panic", size |-> 0]
       ELSE IF size.val < min_size THEN [kind |-> "err", size |-> 0]
       ELSE [kind |-> "ok", size |-> size.val]

(***************************************************************************)
(* The idle values of each subsystem's variables                           *)
(***************************************************************************)
MoveIdle ==
    /\ fsFrom = Absent
    /\ fsTo = Absent
    /\ mvOrig = Absent
    /\ mvStaged = Absent
    /\ mvPc = "idle"

ZipIdle ==
    /\ zHdr = [uncompressed_size |-> 0, compressed_size |-> 0,
               local_header_offset |-> 0, disk_num |-> 0,
               zip64_present |-> FALSE, zip64 |-> Zip64New]
    /\ zFlags = NoFlags
    /\ zBytes = <<>>
    /\ zParsed = Zip64New
    /\ zNeeds = "unset"
    /\ zPc = "idle"
    /\ zOptions = NoSizes

OptIdle ==
    /\ opts = FileOptionsNew
    /\ oLast = "idle"
    /\ oPath = MissingPath

FilterIdle ==
    /\ fName = <<>>
    /\ fArgs = [command |-> "Add", include |-> {}, exclude |-> {},
                no_wildcards |-> FALSE, no_wildcards_boundary |-> FALSE]
    /\ fIsArchive = FALSE
    /\ fSelected = "unset"
    /\ fAction = "none"

ModeIdle ==
    /\ mArgs = ArgsOf("none", FALSE, FALSE, FALSE, FALSE, FALSE, FALSE)
    /\ mPath = [on_fs |-> FALSE, in_archive |-> FALSE, fs_mtime |-> 0,
                entry_mtime |-> 0, fs_size |-> 0, entry_size |-> 0]
    /\ mAction = "none"
    /\ mPc = "idle"

EntryIdle ==
    /\ eOpts = FileOptionsNew
    /\ eAsked = FALSE
    /\ eCur = NoCurrentFile
    /\ eEntry = NoEntry
    /\ ePc = "idle"

SplitIdle ==
    /\ sWriter = [split_size |-> 0, vols |-> <<>>, cur |-> 0]
    /\ sRec = NoRecord
    /\ sPc = "idle"

TimeIdle ==
    /\ tZone = "UTC"
    /\ tIn = ModernTime
    /\ tPair = <<0, 0>>
    /\ tOut = [ok |-> FALSE, dt |-> ModernTime]
    /\ tPc = "idle"

MatchIdle ==
    /\ gName = <<>>
    /\ gPattern = <<>>
    /\ gNoWildcards = FALSE
    /\ gResult = "unset"
    /\ gPc = "idle"

SelectIdle ==
    /\ cFiles = <<>>
    /\ cArgs = [command |-> "Add", include |-> {}, exclude |-> {},
                no_wildcards |-> FALSE, no_wildcards_boundary |-> FALSE,
                after_date |-> None, before_date |-> None]
    /\ cResult = <<>>
    /\ cPc = "idle"

MethodIdle ==
    /\ kWritten = "foreign"
    /\ kCode = 0
    /\ kMethod = "unset"
    /\ kPc = "idle"

TempIdle ==
    /\ tmDir = <<>>
    /\ tmClock = 0
    /\ tmName = [p \in Pids |-> 0]
    /\ tmPc = [p \in Pids |-> "idle"]

SizeArgIdle ==
    /\ qArg = <<>>
    /\ qMin = 0
    /\ qBuild = "release"
    /\ qResult = [kind |-> "none", size |-> 0]
    /\ qPc = "idle"

InitMove ==
    /\ mvStaged \in {FileOf(Chunks("new", n)) : n \in 1..MaxStagedChunks}
    /\ mvOrig \in {Absent} \cup {FileOf(Chunks("old", m)) : m \in 1..MaxOrigChunks}
    /\ fsFrom = mvStaged
    /\ fsTo = mvOrig
    /\ mvPc = "start"
    /\ ZipIdle
    /\ OptIdle
    /\ FilterIdle
    /\ ModeIdle
    /\ EntryIdle
    /\ SplitIdle
    /\ TimeIdle
    /\ MatchIdle
    /\ SelectIdle
    /\ MethodIdle
    /\ TempIdle
    /\ SizeArgIdle

\* fs::rename(from, to) succeeded: the destination is replaced in one step.
RenameOk ==
    /\ mvPc = "start"
    /\ fsTo' = fsFrom
    /\ fsFrom' = Absent
    /\ mvPc' = "ok"
    /\ UNCHANGED <<mvOrig, mvStaged>>
    /\ UNCHANGED notMoveVars

\* fs::rename failed with raw_os_error() == Some(18) (EXDEV).
RenameExdev ==
    /\ mvPc = "start"
    /\ mvPc' = "copy_open"
    /\ UNCHANGED <<fsFrom, fsTo, mvOrig, mvStaged>>
    /\ UNCHANGED notMoveVars

\* A rename failure that removes the destination before returning.
RenameOtherErr_cleaning_dest ==
    /\ mvPc = "start"
    /\ fsTo' = Absent
    /\ mvPc' = "err_rename"
    /\ UNCHANGED <<fsFrom, mvOrig, mvStaged>>
    /\ UNCHANGED notMoveVars

\* fs::rename failed with any other error: the error is returned at once.
RenameOtherErr ==
    /\ mvPc = "start"
    /\ mvPc' = "err_rename"
    /\ UNCHANGED <<fsFrom, fsTo, mvOrig, mvStaged>>
    /\ UNCHANGED notMoveVars

\* fs::copy(from, to) opens the destination with create + truncate.
CopyOpenOk ==
    /\ mvPc = "copy_open"
    /\ fsTo' = FileOf(<<>>)
    /\ mvPc' = "copying"
    /\ UNCHANGED <<fsFrom, mvOrig, mvStaged>>
    /\ UNCHANGED notMoveVars

\* fs::copy fails before the destination was opened.
CopyOpenFail ==
    /\ mvPc = "copy_open"
    /\ mvPc' = "err_copy"
    /\ UNCHANGED <<fsFrom, fsTo, mvOrig, mvStaged>>
    /\ UNCHANGED notMoveVars

\* fs::copy transfers the next chunk of the source.
CopyChunk ==
    /\ mvPc = "copying"
    /\ Len(fsTo.data) < Len(fsFrom.data)
    /\ fsTo' = FileOf(Append(fsTo.data, fsFrom.data[Len(fsTo.data) + 1]))
    /\ UNCHANGED <<fsFrom, mvOrig, mvStaged, mvPc>>
    /\ UNCHANGED notMoveVars

\* A copy failure whose cleanup removes the source.
CopyChunkFail_removing_source ==
    /\ mvPc = "copying"
    /\ Len(fsTo.data) < Len(fsFrom.data)
    /\ fsFrom' = Absent
    /\ mvPc' = "err_copy"
    /\ UNCHANGED <<fsTo, mvOrig, mvStaged>>
    /\ UNCHANGED notMoveVars

\* fs::copy fails while transferring (ENOSPC, EIO, ...): Err(copy_err) is
\* returned as it is, the destination is not touched again.
CopyChunkFail ==
    /\ mvPc = "copying"
    /\ Len(fsTo.data) < Len(fsFrom.data)
    /\ mvPc' = "err_copy"
    /\ UNCHANGED <<fsFrom, fsTo, mvOrig, mvStaged>>
    /\ UNCHANGED notMoveVars

\* fs::copy returned Ok(_).
CopyDone ==
    /\ mvPc = "copying"
    /\ Len(fsTo.data) = Len(fsFrom.data)
    /\ mvPc' = "remove_src"
    /\ UNCHANGED <<fsFrom, fsTo, mvOrig, mvStaged>>
    /\ UNCHANGED notMoveVars

\* fs::remove_file(from) succeeded.
RemoveSrcOk ==
    /\ mvPc = "remove_src"
    /\ fsFrom' = Absent
    /\ mvPc' = "ok"
    /\ UNCHANGED <<fsTo, mvOrig, mvStaged>>
    /\ UNCHANGED notMoveVars

\* fs::remove_file(from) failed: let _ = fs::remove_file(to), then Err.
\* The result of the second removal is ignored, so it may or may not remove.
RemoveSrcFail ==
    /\ mvPc = "remove_src"
    /\ \E removed \in BOOLEAN :
           fsTo' = IF removed THEN Absent ELSE fsTo
    /\ mvPc' = "err_remove"
    /\ UNCHANGED <<fsFrom, mvOrig, mvStaged>>
    /\ UNCHANGED notMoveVars

\* The process is killed between two system calls of safe_move_file.
Kill ==
    /\ mvPc \in {"start", "copy_open", "copying", "remove_src"}
    /\ mvPc' = "killed"
    /\ UNCHANGED <<fsFrom, fsTo, mvOrig, mvStaged>>
    /\ UNCHANGED notMoveVars

safe_move_file ==
    \/ RenameOk
    \/ RenameExdev
    \/ RenameOtherErr
    \/ CopyOpenOk
    \/ CopyOpenFail
    \/ CopyChunk
    \/ CopyChunkFail
    \/ CopyDone
    \/ RemoveSrcOk
    \/ RemoveSrcFail
    \/ Kill

NextMove == safe_move_file

SpecMove == InitMove /\ [][NextMove]_vars

(***************************************************************************)
(* ZIP64: the operations on one central-directory header                   *)
(***************************************************************************)
InitZip64 ==
    /\ \E us \in Slot32, cs \in Slot32, off \in Slot32,
          dn \in {0, MAX_ZIP_ENTRIES}, present \in BOOLEAN, info \in Zip64Infos :
          /\ (~present => info = Zip64New)
          /\ zHdr = [uncompressed_size |-> us, compressed_size |-> cs,
                     local_header_offset |-> off, disk_num |-> dn,
                     zip64_present |-> present, zip64 |-> info]
    /\ zFlags = NoFlags
    /\ zBytes = <<>>
    /\ zParsed = Zip64New
    /\ zNeeds = "unset"
    /\ zPc = "built"
    /\ zOptions = NoSizes
    /\ MoveIdle
    /\ OptIdle
    /\ FilterIdle
    /\ ModeIdle
    /\ EntryIdle
    /\ SplitIdle
    /\ TimeIdle
    /\ MatchIdle
    /\ SelectIdle
    /\ MethodIdle
    /\ TempIdle
    /\ SizeArgIdle

\* The writer serialises the header's ZIP64 information; a field is passed
\* as "max" when the header's 32-bit slot holds the sentinel.
EmitZip64 ==
    /\ zPc = "built"
    /\ zHdr.zip64_present
    /\ LET um == zHdr.uncompressed_size = MAX_ZIP_SIZE
           cm == zHdr.compressed_size = MAX_ZIP_SIZE
           om == zHdr.local_header_offset = MAX_ZIP_SIZE
       IN /\ zFlags' = [u |-> um, c |-> cm, o |-> om]
          /\ zBytes' = to_bytes(zHdr.zip64, um, cm, om)
    /\ zPc' = "emitted"
    /\ UNCHANGED <<zHdr, zParsed, zNeeds, zOptions>>
    /\ UNCHANGED notZipVars

\* The reader parses the emitted extra-field data again.
ParseZip64 ==
    /\ zPc = "emitted"
    /\ zParsed' = from_bytes(zBytes)
    /\ zPc' = "parsed"
    /\ UNCHANGED <<zHdr, zFlags, zBytes, zNeeds, zOptions>>
    /\ UNCHANGED notZipVars

NeedsZip64 ==
    /\ zPc = "built"
    /\ zNeeds = "unset"
    /\ zNeeds' = IF needs_zip64(zHdr) THEN "true" ELSE "false"
    /\ UNCHANGED <<zHdr, zFlags, zBytes, zParsed, zPc, zOptions>>
    /\ UNCHANGED notZipVars

\* A reader asks the entry for the FileOptions of a copy.
ZipFileOptions ==
    /\ zPc = "built"
    /\ zOptions = NoSizes
    /\ zOptions' = options(zHdr)
    /\ UNCHANGED <<zHdr, zFlags, zBytes, zParsed, zNeeds, zPc>>
    /\ UNCHANGED notZipVars

NextZip64 == EmitZip64 \/ ParseZip64 \/ NeedsZip64 \/ ZipFileOptions

SpecZip64 == InitZip64 /\ [][NextZip64]_vars

(***************************************************************************)
(* FileOptions: the operations on one value                                *)
(***************************************************************************)
InitOpts ==
    /\ \E nx \in BOOLEAN, nc \in NoCompressSets :
          opts = [FileOptionsNew EXCEPT !.no_extra_field = nx,
                                        !.no_compress_extensions = nc]
    /\ oLast = "new"
    /\ oPath = MissingPath
    /\ MoveIdle
    /\ ZipIdle
    /\ FilterIdle
    /\ ModeIdle
    /\ EntryIdle
    /\ SplitIdle
    /\ TimeIdle
    /\ MatchIdle
    /\ SelectIdle
    /\ MethodIdle
    /\ TempIdle
    /\ SizeArgIdle

WithCompression ==
    /\ \E m \in CompressionMethods : opts' = with_compression(opts, m)
    /\ oLast' = "with_compression"
    /\ UNCHANGED <<oPath, notOptVars>>

WithCompressionLevel ==
    /\ \E l \in Levels : opts' = with_compression_level(opts, l)
    /\ oLast' = "with_compression_level"
    /\ UNCHANGED <<oPath, notOptVars>>

OptimizeForSize ==
    /\ \E n \in FileSizes : opts' = optimize_compression_level_for_size(opts, n)
    /\ oLast' = "optimize_compression_level_for_size"
    /\ UNCHANGED <<oPath, notOptVars>>

SetFilePath ==
    /\ \E p \in Paths :
          LET r == set_file_path(opts, p)
          IN /\ opts' = r.opts
             /\ oLast' = IF r.ok THEN "set_file_path" ELSE "set_file_path_err"
             /\ oPath' = p
    /\ UNCHANGED notOptVars

NextOpts == WithCompression \/ WithCompressionLevel \/ OptimizeForSize \/ SetFilePath

SpecOpts == InitOpts /\ [][NextOpts]_vars

(***************************************************************************)
(* Selection: filtering one name                                           *)
(***************************************************************************)
InitFilter ==
    /\ fName \in Names
    /\ \E cmd \in FilterCommands, inc \in SUBSET FilterPatterns,
          exc \in SUBSET FilterPatterns, nw \in BOOLEAN, ws \in BOOLEAN :
          fArgs = [command |-> cmd, include |-> inc, exclude |-> exc,
                   no_wildcards |-> nw, no_wildcards_boundary |-> ws]
    /\ fIsArchive \in BOOLEAN
    /\ fSelected = "unset"
    /\ fAction = "none"
    /\ MoveIdle
    /\ ZipIdle
    /\ OptIdle
    /\ ModeIdle
    /\ EntryIdle
    /\ SplitIdle
    /\ TimeIdle
    /\ MatchIdle
    /\ SelectIdle
    /\ MethodIdle
    /\ TempIdle
    /\ SizeArgIdle

\* should_include_file / the archive passes call apply_filters on the name.
ApplyFilters ==
    /\ fSelected = "unset"
    /\ fSelected' = IF apply_filters(fName, fArgs, fIsArchive)
                    THEN "true" ELSE "false"
    /\ UNCHANGED <<fName, fArgs, fIsArchive, fAction>>
    /\ UNCHANGED notFilterVars

\* The delete or copy pass decides what happens to an old-archive entry.
PlanArchiveEntry ==
    /\ fIsArchive
    /\ fArgs.command \in {"Delete", "Copy"}
    /\ fAction = "none"
    /\ fAction' = ArchiveEntryAction(fName, fArgs)
    /\ UNCHANGED <<fName, fArgs, fIsArchive, fSelected>>
    /\ UNCHANGED notFilterVars

NextFilter == ApplyFilters \/ PlanArchiveEntry

SpecFilter == InitFilter /\ [][NextFilter]_vars

(***************************************************************************)
(* Command selection and planning of one archive-path                      *)
(***************************************************************************)
InitMode ==
    /\ \E mode \in BasicModes, list \in BOOLEAN, test \in BOOLEAN,
          has_files \in BOOLEAN, fix \in BOOLEAN, adjust \in BOOLEAN,
          help \in BOOLEAN :
          mArgs = ArgsOf(mode, list, test, has_files, fix, adjust, help)
    /\ mPath \in PlanPaths
    /\ mAction = "none"
    /\ mPc = "args"
    /\ MoveIdle
    /\ ZipIdle
    /\ OptIdle
    /\ FilterIdle
    /\ EntryIdle
    /\ SplitIdle
    /\ TimeIdle
    /\ MatchIdle
    /\ SelectIdle
    /\ MethodIdle
    /\ TempIdle
    /\ SizeArgIdle

\* parse_args with --so or --h2: the help is printed and the process exits.
ParseArgsHelp ==
    /\ mPc = "args"
    /\ mArgs.help
    /\ mPc' = "exited"
    /\ UNCHANGED <<mArgs, mPath, mAction>>
    /\ UNCHANGED notModeVars

ParseArgs ==
    /\ mPc = "args"
    /\ ~mArgs.help
    /\ mArgs' = [mArgs EXCEPT !.command = parse_args(mArgs)]
    /\ mPc' = "parsed"
    /\ UNCHANGED <<mPath, mAction>>
    /\ UNCHANGED notModeVars

\* The filesystem-driven commands pair the path with the old archive.
PlanPath ==
    /\ mPc = "parsed"
    /\ mArgs.command \in {"Add", "Update"}
    /\ mAction' = PlanAction(TableRow(mArgs), mPath)
    /\ mPc' = "planned"
    /\ UNCHANGED <<mArgs, mPath>>
    /\ UNCHANGED notModeVars

NextMode == ParseArgsHelp \/ ParseArgs \/ PlanPath

SpecMode == InitMode /\ [][NextMode]_vars

(***************************************************************************)
(* The entry writer: options, start, writes, finish                        *)
(***************************************************************************)
InitEntry ==
    /\ eOpts = FileOptionsNew
    /\ eAsked = FALSE
    /\ eCur = NoCurrentFile
    /\ eEntry = NoEntry
    /\ ePc = "opts"
    /\ MoveIdle
    /\ ZipIdle
    /\ OptIdle
    /\ FilterIdle
    /\ ModeIdle
    /\ SplitIdle
    /\ TimeIdle
    /\ MatchIdle
    /\ SelectIdle
    /\ MethodIdle
    /\ TempIdle
    /\ SizeArgIdle

EntryWithCompression ==
    /\ ePc = "opts"
    /\ \E m \in CompressionMethods : eOpts' = with_compression(eOpts, m)
    /\ UNCHANGED <<eAsked, eCur, eEntry, ePc, notEntryVars>>

EntryWithCompressionLevel ==
    /\ ePc = "opts"
    /\ \E l \in Levels : eOpts' = with_compression_level(eOpts, l)
    /\ eAsked' = TRUE
    /\ UNCHANGED <<eCur, eEntry, ePc, notEntryVars>>

StartFile ==
    /\ ePc = "opts"
    /\ eCur' = start_file(eOpts)
    /\ ePc' = "writing"
    /\ UNCHANGED <<eOpts, eAsked, eEntry, notEntryVars>>

WriteData ==
    /\ ePc = "writing"
    /\ \E n \in 1..MaxInput :
          /\ eCur.bytes_written + n <= MaxInput
          /\ \E out \in EncoderOutputs(eCur.compression, n) :
                eCur' = write_data(eCur, n, out)
    /\ UNCHANGED <<eOpts, eAsked, eEntry, ePc, notEntryVars>>

FinishFile ==
    /\ ePc = "writing"
    /\ eEntry' = finish_file(eCur)
    /\ ePc' = "done"
    /\ UNCHANGED <<eOpts, eAsked, eCur, notEntryVars>>

NextEntry ==
    \/ EntryWithCompression
    \/ EntryWithCompressionLevel
    \/ StartFile
    \/ WriteData
    \/ FinishFile

SpecEntry == InitEntry /\ [][NextEntry]_vars

(***************************************************************************)
(* The split writer: records, payload, finish                              *)
(***************************************************************************)
InitSplit ==
    /\ \E s \in SplitSizes : sWriter = [split_size |-> s, vols |-> <<>>, cur |-> 0]
    /\ sRec = NoRecord
    /\ sPc = "open"
    /\ MoveIdle
    /\ ZipIdle
    /\ OptIdle
    /\ FilterIdle
    /\ ModeIdle
    /\ EntryIdle
    /\ TimeIdle
    /\ MatchIdle
    /\ SelectIdle
    /\ MethodIdle
    /\ TempIdle
    /\ SizeArgIdle

WriteRecord ==
    /\ sPc = "open"
    /\ \E kind \in RecordKinds, n \in 1..MaxRecordLen :
          LET w == write_record(sWriter, n)
          IN /\ Len(w.vols) <= MaxClosedVolumes
             /\ sWriter' = w
             /\ sRec' = [kind |-> kind, len |-> n,
                         first |-> current_split_index(w)
                                     - (IF w.cur >= n THEN 0 ELSE 1),
                         last |-> current_split_index(w)]
    /\ UNCHANGED <<sPc, notSplitVars>>

WritePayload ==
    /\ sPc = "open"
    /\ \E n \in 1..MaxPayload :
          LET w == write_payload(sWriter, n)
          IN /\ Len(w.vols) <= MaxClosedVolumes
             /\ sWriter' = w
             /\ sRec' = [kind |-> "payload", len |-> n,
                         first |-> NextByteVolume(sWriter),
                         last |-> current_split_index(w)]
    /\ UNCHANGED <<sPc, notSplitVars>>

\* The end-of-central-directory record, then the last volume is finalized.
FinishArchive ==
    /\ sPc = "open"
    /\ \E n \in 1..MaxRecordLen :
          LET w == write_record(sWriter, n)
          IN /\ Len(w.vols) <= MaxClosedVolumes
             /\ sWriter' = w
             /\ sRec' = [kind |-> "end_record", len |-> n,
                         first |-> current_split_index(w)
                                     - (IF w.cur >= n THEN 0 ELSE 1),
                         last |-> current_split_index(w)]
    /\ sPc' = "closed"
    /\ UNCHANGED notSplitVars

NextSplit == WriteRecord \/ WritePayload \/ FinishArchive

SpecSplit == InitSplit /\ [][NextSplit]_vars

(***************************************************************************)
(* MS-DOS timestamps: encoding a file's time, decoding an entry's          *)
(***************************************************************************)
InitTime ==
    /\ tZone \in TimeZones
    /\ tIn \in FileTimes
    /\ tPair = <<0, 0>>
    /\ tOut = [ok |-> FALSE, dt |-> ModernTime]
    /\ tPc = "file"
    /\ MoveIdle
    /\ ZipIdle
    /\ OptIdle
    /\ FilterIdle
    /\ ModeIdle
    /\ EntryIdle
    /\ SplitIdle
    /\ MatchIdle
    /\ SelectIdle
    /\ MethodIdle
    /\ TempIdle
    /\ SizeArgIdle

GetFileModificationTime ==
    /\ tPc = "file"
    /\ tPair' = get_file_modification_time([mtime |-> tIn])
    /\ tPc' = "encoded"
    /\ UNCHANGED <<tZone, tIn, tOut, notTimeVars>>

LastModified ==
    /\ tPc = "encoded"
    /\ tOut' = last_modified(tZone, tPair)
    /\ tPc' = "decoded"
    /\ UNCHANGED <<tZone, tIn, tPair, notTimeVars>>

NextTime == GetFileModificationTime \/ LastModified

SpecTime == InitTime /\ [][NextTime]_vars

(***************************************************************************)
(* match_pattern on its own                                                *)
(***************************************************************************)
InitMatch ==
    /\ gName \in MatchNames
    /\ gPattern \in MatchPatterns
    /\ gNoWildcards \in BOOLEAN
    /\ gResult = "unset"
    /\ gPc = "call"
    /\ MoveIdle
    /\ ZipIdle
    /\ OptIdle
    /\ FilterIdle
    /\ ModeIdle
    /\ EntryIdle
    /\ SplitIdle
    /\ TimeIdle
    /\ SelectIdle
    /\ MethodIdle
    /\ TempIdle
    /\ SizeArgIdle

MatchPattern ==
    /\ gPc = "call"
    /\ gResult' = IF match_pattern(gName, gPattern, gNoWildcards)
                  THEN "true" ELSE "false"
    /\ gPc' = "returned"
    /\ UNCHANGED <<gName, gPattern, gNoWildcards, notMatchVars>>

NextMatch == MatchPattern

SpecMatch == InitMatch /\ [][NextMatch]_vars

(***************************************************************************)
(* Filtering the filesystem candidates                                     *)
(***************************************************************************)
InitSelect ==
    /\ cFiles \in CandidateMaps
    /\ \E inc \in SUBSET CandidatePatterns, exc \in SUBSET CandidatePatterns,
          ws \in BOOLEAN, after \in OptDates, before \in OptDates :
          cArgs = [command |-> "Add", include |-> inc, exclude |-> exc,
                   no_wildcards |-> FALSE, no_wildcards_boundary |-> ws,
                   after_date |-> after, before_date |-> before]
    /\ cResult = <<>>
    /\ cPc = "call"
    /\ MoveIdle
    /\ ZipIdle
    /\ OptIdle
    /\ FilterIdle
    /\ ModeIdle
    /\ EntryIdle
    /\ SplitIdle
    /\ TimeIdle
    /\ MatchIdle
    /\ MethodIdle
    /\ TempIdle
    /\ SizeArgIdle

FilterFilesystemFiles ==
    /\ cPc = "call"
    /\ cResult' = filter_filesystem_files(cFiles, cArgs)
    /\ cPc' = "returned"
    /\ UNCHANGED <<cFiles, cArgs, notSelectVars>>

NextSelect == FilterFilesystemFiles

SpecSelect == InitSelect /\ [][NextSelect]_vars

(***************************************************************************)
(* Compression method codes: written, read back                            *)
(***************************************************************************)
InitMethod ==
    /\ \/ /\ kWritten \in CompressionMethods
          /\ kCode = 0
          /\ kPc = "method"
       \/ /\ kWritten = "foreign"
          /\ kCode \in MethodCodes
          /\ kPc = "code"
    /\ kMethod = "unset"
    /\ MoveIdle
    /\ ZipIdle
    /\ OptIdle
    /\ FilterIdle
    /\ ModeIdle
    /\ EntryIdle
    /\ SplitIdle
    /\ TimeIdle
    /\ MatchIdle
    /\ SelectIdle
    /\ TempIdle
    /\ SizeArgIdle

\* CompressionMethod::to_le_bytes: the code of the method goes into a header.
MethodToLeBytes ==
    /\ kPc = "method"
    /\ kCode' = MethodCode(kWritten)
    /\ kPc' = "code"
    /\ UNCHANGED <<kWritten, kMethod, notMethodVars>>

\* CompressionMethod::from on the code of a header.
MethodFrom ==
    /\ kPc = "code"
    /\ kMethod' = CompressionMethodFrom(kCode)
    /\ kPc' = "decoded"
    /\ UNCHANGED <<kWritten, kCode, notMethodVars>>

NextMethod == MethodToLeBytes \/ MethodFrom

SpecMethod == InitMethod /\ [][NextMethod]_vars

(***************************************************************************)
(* Staging-file creation by two runs sharing a temp directory              *)
(***************************************************************************)
InitTemp ==
    /\ tmDir \in StartingTempDirs
    /\ tmClock = 0
    /\ tmName = [p \in Pids |-> 0]
    /\ tmPc = [p \in Pids |-> "start"]
    /\ MoveIdle
    /\ ZipIdle
    /\ OptIdle
    /\ FilterIdle
    /\ ModeIdle
    /\ EntryIdle
    /\ SplitIdle
    /\ TimeIdle
    /\ MatchIdle
    /\ SelectIdle
    /\ MethodIdle
    /\ SizeArgIdle

\* Time passes.
ClockTick ==
    /\ tmClock < MaxClock
    /\ tmClock' = tmClock + 1
    /\ UNCHANGED <<tmDir, tmName, tmPc, notTempVars>>

\* A run derives a staging-file name from its pid and the time.
GenerateTempFilename(p) ==
    /\ tmPc[p] = "start"
    /\ tmName' = [tmName EXCEPT ![p] = generate_temp_filename(p, tmClock)]
    /\ tmPc' = [tmPc EXCEPT ![p] = "named"]
    /\ UNCHANGED <<tmDir, tmClock, notTempVars>>

\* A creation that opens the name with create + truncate.
CreateStagingFile_truncating(p) ==
    /\ tmPc[p] = "named"
    /\ tmDir' = [n \in DOMAIN tmDir \cup {tmName[p]} |->
                    IF n = tmName[p] THEN p ELSE tmDir[n]]
    /\ tmPc' = [tmPc EXCEPT ![p] = "created"]
    /\ UNCHANGED <<tmClock, tmName, notTempVars>>

\* The run creates the staging file only if the name is free (exclusive
\* create, one step).
CreateStagingFile(p) ==
    /\ tmPc[p] = "named"
    /\ tmName[p] \notin DOMAIN tmDir
    /\ tmDir' = [n \in DOMAIN tmDir \cup {tmName[p]} |->
                    IF n = tmName[p] THEN p ELSE tmDir[n]]
    /\ tmPc' = [tmPc EXCEPT ![p] = "created"]
    /\ UNCHANGED <<tmClock, tmName, notTempVars>>

\* The name exists: the collision is detected and the run asks for a new
\* name.
RetryOnCollision(p) ==
    /\ tmPc[p] = "named"
    /\ tmName[p] \in DOMAIN tmDir
    /\ tmPc' = [tmPc EXCEPT ![p] = "start"]
    /\ UNCHANGED <<tmDir, tmClock, tmName, notTempVars>>

Generate == \E p \in Pids : GenerateTempFilename(p)
Create == \E p \in Pids : CreateStagingFile(p)
Retry == \E p \in Pids : RetryOnCollision(p)

NextTemp == ClockTick \/ Generate \/ Create \/ Retry

SpecTemp == InitTemp /\ [][NextTemp]_vars

(***************************************************************************)
(* The value parser of -s and --ds                                         *)
(***************************************************************************)
InitSizeArg ==
    /\ qArg \in SizeArgs
    /\ qMin \in {DotMinSize, SplitMinSize}
    /\ qBuild \in {"debug", "release"}
    /\ qResult = NoSizeResult
    /\ qPc = "call"
    /\ MoveIdle
    /\ ZipIdle
    /\ OptIdle
    /\ FilterIdle
    /\ ModeIdle
    /\ EntryIdle
    /\ SplitIdle
    /\ TimeIdle
    /\ MatchIdle
    /\ SelectIdle
    /\ MethodIdle
    /\ TempIdle

ParseSplitSizeArg ==
    /\ qPc = "call"
    /\ qResult' = parse_split_size_arg(qArg, qMin, qBuild)
    /\ qPc' = "returned"
    /\ UNCHANGED <<qArg, qMin, qBuild, notSizeArgVars>>

NextSizeArg == ParseSplitSizeArg

SpecSizeArg == InitSizeArg /\ [][NextSizeArg]_vars

(***************************************************************************)
(* Staging and commit claims                                               *)
(***************************************************************************)
MoveReturnedErr == mvPc \in {"err_rename", "err_copy", "err_remove"}

\* A strict prefix of the staged content sits at the destination.
PartialAtDest ==
    /\ fsTo.exists
    /\ fsTo # mvOrig
    /\ Len(fsTo.data) < Len(mvStaged.data)
    /\ fsTo.data = SubSeq(mvStaged.data, 1, Len(fsTo.data))

\* C1 (as claimed): killed before the staged archive is complete at the
\* destination, the destination still holds the original archive, byte for
\* byte, and no partial archive is visible there.
CommitAtomicWhenKilled ==
    (mvPc = "killed" /\ fsTo # mvStaged) => (fsTo = mvOrig /\ ~PartialAtDest)

\* C2 (as claimed): after the error return of a failed cross-device copy no
\* partially copied file is left at the destination and the staging file
\* still exists with its full content.
CopyFailureRolledBack ==
    (mvPc = "err_copy") => (~PartialAtDest /\ fsFrom = mvStaged)

\* C3 (as claimed): whenever safe_move_file returns an error, the archive
\* that was at the destination before the call is still there unchanged.
ErrorLeavesOriginal ==
    MoveReturnedErr => fsTo = mvOrig

(***************************************************************************)
(* ZIP64 claims                                                            *)
(***************************************************************************)
\* Every promoted field of the emitted header has a value, and so has the
\* disk-start-number when the 16-bit disk field holds the sentinel.
PromotedFieldsPresent ==
    /\ zFlags.u => zHdr.zip64.uncompressed_size.some
    /\ zFlags.c => zHdr.zip64.compressed_size.some
    /\ zFlags.o => zHdr.zip64.local_header_offset.some
    /\ (zHdr.disk_num = MAX_ZIP_ENTRIES) => zHdr.zip64.disk_start_number.some

PromotedCount ==
    (IF zFlags.u THEN 1 ELSE 0) + (IF zFlags.c THEN 1 ELSE 0)
        + (IF zFlags.o THEN 1 ELSE 0)

\* C7 (as claimed): to_bytes emits exactly the promoted 8-byte values in
\* the order uncompressed, compressed, offset, then the 4-byte disk start
\* number only when the disk field equals 0xFFFF; the length is 8 times the
\* number of promoted fields plus 4 when the disk number is promoted.
EmitsExactlyPromoted ==
    (zPc = "emitted" /\ PromotedFieldsPresent) =>
        /\ zBytes =
              (IF zFlags.u
               THEN to_le_bytes(zHdr.zip64.uncompressed_size.val, U64Width)
               ELSE <<>>)
              \o (IF zFlags.c
                  THEN to_le_bytes(zHdr.zip64.compressed_size.val, U64Width)
                  ELSE <<>>)
              \o (IF zFlags.o
                  THEN to_le_bytes(zHdr.zip64.local_header_offset.val, U64Width)
                  ELSE <<>>)
              \o (IF zHdr.disk_num = MAX_ZIP_ENTRIES
                  THEN to_le_bytes(zHdr.zip64.disk_start_number.val, U32Width)
                  ELSE <<>>)
        /\ Len(zBytes) = U64Width * PromotedCount
              + (IF zHdr.disk_num = MAX_ZIP_ENTRIES THEN U32Width ELSE 0)

\* The writer's use of the codec: the information holds exactly the
\* promoted size and offset fields, and no disk start number.
ExactlyPromotedPresent ==
    /\ zFlags.u <=> zHdr.zip64.uncompressed_size.some
    /\ zFlags.c <=> zHdr.zip64.compressed_size.some
    /\ zFlags.o <=> zHdr.zip64.local_header_offset.some
    /\ zFlags.u => zHdr.zip64.uncompressed_size.val > MAX_ZIP_SIZE
    /\ zFlags.c => zHdr.zip64.compressed_size.val > MAX_ZIP_SIZE
    /\ zFlags.o => zHdr.zip64.local_header_offset.val > MAX_ZIP_SIZE
    /\ ~zHdr.zip64.disk_start_number.some

\* C8 (as claimed): parsing the bytes to_bytes produced for a subset of
\* promoted fields gives each promoted value back in its own field and
\* leaves every field that was not promoted absent.
RoundTripSelective ==
    (zPc = "parsed" /\ ExactlyPromotedPresent) =>
        /\ zParsed.uncompressed_size = zHdr.zip64.uncompressed_size
        /\ zParsed.compressed_size = zHdr.zip64.compressed_size
        /\ zParsed.local_header_offset = zHdr.zip64.local_header_offset

\* The true value of a field: the 64-bit value of the ZIP64 extended
\* information when it is present, the 32-bit header field otherwise.
TrueValue(slot, opt) == IF zHdr.zip64_present /\ opt.some THEN opt.val ELSE slot

\* C9: needs_zip64 is true exactly when the true uncompressed size, the
\* true compressed size or the true local-header offset exceeds 2^32 - 1.
NeedsZip64IffTrueValueExceeds ==
    (zNeeds # "unset") =>
        ((zNeeds = "true") <=>
            \/ TrueValue(zHdr.uncompressed_size, zHdr.zip64.uncompressed_size)
                   > MAX_ZIP_SIZE
            \/ TrueValue(zHdr.compressed_size, zHdr.zip64.compressed_size)
                   > MAX_ZIP_SIZE
            \/ TrueValue(zHdr.local_header_offset, zHdr.zip64.local_header_offset)
                   > MAX_ZIP_SIZE)

\* needs_zip64 answered true for a header whose compressed size alone is
\* above the limit, through its ZIP64 value, the 32-bit slot holding the
\* sentinel.
NeedsZip64ByCompressedOnly ==
    /\ zNeeds = "true"
    /\ zHdr.zip64_present
    /\ zHdr.compressed_size = MAX_ZIP_SIZE
    /\ zHdr.zip64.compressed_size.some
    /\ zHdr.zip64.compressed_size.val > MAX_ZIP_SIZE
    /\ ~zHdr.zip64.uncompressed_size.some
    /\ ~zHdr.zip64.local_header_offset.some

(***************************************************************************)
(* FileOptions claims                                                      *)
(***************************************************************************)
\* C10: once a level was set with with_compression_level, no with_compression,
\* optimize_compression_level_for_size or set_file_path call changes
\* compression_level or resets compression_level_specified.
ExplicitLevelSticks ==
    [][(opts.compression_level_specified /\ oLast' # "with_compression_level")
          => (/\ opts'.compression_level = opts.compression_level
              /\ opts'.compression_level_specified)]_vars

\* An explicit level 9 is still in place after set_file_path ran on a small
\* Deflated file, for which the size-adaptive level would be 1.
ExplicitLevelSurvivesSetFilePath ==
    /\ oLast = "set_file_path"
    /\ opts.compression_level_specified
    /\ opts.compression_level = 9
    /\ opts.compression_method = "Deflated"
    /\ opts.uncompress_size = 100

FsOnly == mPath.on_fs /\ ~mPath.in_archive
ArchiveOnly == ~mPath.on_fs /\ mPath.in_archive
OnBoth == mPath.on_fs /\ mPath.in_archive
FsNewer == mPath.fs_mtime > mPath.entry_mtime
FsDiffers ==
    mPath.fs_mtime # mPath.entry_mtime \/ mPath.fs_size # mPath.entry_size

\* The mode the user asked for, read from the flags.
AskedUpdate == mArgs.update
AskedFreshen == mArgs.freshen
AskedFilesync == mArgs.filesync
AskedAdd == ~mArgs.update /\ ~mArgs.freshen /\ ~mArgs.filesync

SizeAdaptiveLevel(n) ==
    CASE n <= 100 -> 1
      [] n > 100 /\ n <= 1024 -> 1
      [] n > 1024 /\ n <= 10240 -> 2
      [] n > 10240 /\ n <= 102400 -> 3
      [] n > 102400 -> 6

SetFilePathOnFile == oLast = "set_file_path" /\ oPath.kind = "file"

\* C11 as stated: after set_file_path on a filesystem file of size n, with no
\* externally specified level, the level is the one of n's size band.
LevelFollowsSizeForEveryFile ==
    (SetFilePathOnFile /\ ~opts.compression_level_specified)
        => opts.compression_level = SizeAdaptiveLevel(oPath.size)

\* C11 amended: the same, for the entries whose method after set_file_path is
\* Deflated.
LevelFollowsSizeWhenDeflated ==
    (/\ SetFilePathOnFile
     /\ ~opts.compression_level_specified
     /\ opts.compression_method = "Deflated")
        => opts.compression_level = SizeAdaptiveLevel(oPath.size)

\* A Deflated file of 10241 bytes got level 3.
MediumFileGetsLevelThree ==
    /\ SetFilePathOnFile
    /\ ~opts.compression_level_specified
    /\ opts.compression_method = "Deflated"
    /\ oPath.size = 10241
    /\ opts.compression_level = 3

\* The extension of the last path, with its dot, is in the no-compress set.
SuffixIsNoCompress ==
    \/ oPath.ext = "zip" /\ ".zip" \in opts.no_compress_extensions
    \/ oPath.ext = "txt" /\ ".txt" \in opts.no_compress_extensions

DeflateExpanded ==
    /\ ePc = "done"
    /\ eOpts.compression_method = "Deflated"
    /\ eCur.encoded > eCur.bytes_written

SplitVolumesBounded ==
    sPc \in {"open", "closed"} =>
        /\ sWriter.cur <= sWriter.split_size
        /\ \A i \in 1..Len(sWriter.vols) :
              /\ sWriter.vols[i].bytes <= sWriter.split_size
              /\ \/ sWriter.vols[i].bytes = sWriter.split_size
                 \/ /\ sWriter.vols[i].next_record > 0
                    /\ sWriter.vols[i].bytes + sWriter.vols[i].next_record
                          > sWriter.split_size
        /\ sRec.kind \in {"local_header", "data_descriptor"}
              => sRec.first = sRec.last

\* A data descriptor that did not fit closed a volume one byte short and was
\* written whole into the next.
DescriptorForcedRollover ==
    /\ sRec.kind = "data_descriptor"
    /\ sRec.len = 2
    /\ sRec.first = sRec.last
    /\ sRec.first = 2
    /\ sWriter.split_size = 4
    /\ sWriter.vols = <<[bytes |-> 3, next_record |-> 2]>>
    /\ sWriter.cur = 2

(***************************************************************************)
(* MS-DOS timestamps                                                       *)
(***************************************************************************)
\* C15: a local date-time of 1980 .. 2107, encoded and decoded with
\* last_modified, comes back with only the low bit of the seconds cleared.
DosTimeRoundTrip ==
    (tPc = "decoded" /\ tIn.year \in 1980..2107) =>
        /\ tOut.ok
        /\ tOut.dt = [tIn EXCEPT !.second = 2 * (tIn.second \div 2)]

\* C16: a modification time before 1980 is encoded as 1980-01-01 00:00:00.
Before1980ClampsToEpoch ==
    (tPc \in {"encoded", "decoded"} /\ tIn.year < 1980) =>
        tPair = <<0, (0 * 512) + (1 * 32) + 1>>

(***************************************************************************)
(* Glob matching                                                           *)
(***************************************************************************)
\* The glob of the claim: "*" any run of characters, "?" one character,
\* any other character itself.
RECURSIVE GlobMatches(_, _)
GlobMatches(pattern, name) ==
    IF pattern = <<>> THEN name = <<>>
    ELSE IF Head(pattern) = "*"
    THEN \/ GlobMatches(Tail(pattern), name)
         \/ (name # <<>> /\ GlobMatches(pattern, Tail(name)))
    ELSE /\ name # <<>>
         /\ (Head(pattern) = "?" \/ Head(pattern) = Head(name))
         /\ GlobMatches(Tail(pattern), Tail(name))

\* C17: with wildcards enabled match_pattern(name, pattern) holds exactly
\* when name matches pattern as a glob; a pattern without "*" or "?" matches
\* only the identical name.
MatchPatternIsGlob ==
    (gPc = "returned" /\ ~gNoWildcards) =>
        /\ (gResult = "true") <=> GlobMatches(gPattern, gName)
        /\ ~HasWildcard(gPattern) => ((gResult = "true") <=> gName = gPattern)

(***************************************************************************)
(* no-wildcards-boundary                                                   *)
(***************************************************************************)
\* The glob in which "*" and "?" do not match a path separator.
RECURSIVE GlobMatchesWithinSegments(_, _)
GlobMatchesWithinSegments(pattern, name) ==
    IF pattern = <<>> THEN name = <<>>
    ELSE IF Head(pattern) = "*"
    THEN \/ GlobMatchesWithinSegments(Tail(pattern), name)
         \/ /\ name # <<>>
            /\ Head(name) # "/"
            /\ GlobMatchesWithinSegments(pattern, Tail(name))
    ELSE /\ name # <<>>
         /\ \/ Head(pattern) = "?" /\ Head(name) # "/"
            \/ Head(pattern) = Head(name)
         /\ GlobMatchesWithinSegments(Tail(pattern), Tail(name))

\* apply_filters ran with no-wildcards-boundary set and one exclude pattern
\* alone, on a filesystem candidate or an entry of delete or copy mode.
FilteredByOnePattern ==
    /\ fSelected # "unset"
    /\ fArgs.no_wildcards_boundary
    /\ ~fArgs.no_wildcards
    /\ fArgs.include = {}
    /\ Cardinality(fArgs.exclude) = 1
    /\ fIsArchive => fArgs.command \in {"Delete", "Copy"}

\* The one pattern matched the name: the entry is selected for deletion, or
\* the candidate or copied entry is left out.
OnePatternMatched ==
    IF fIsArchive /\ fArgs.command = "Delete"
    THEN fSelected = "true"
    ELSE fSelected = "false"

\* C18: with no-wildcards-boundary set, a pattern with "*" or "?" matches a
\* name only if no wildcard matches a path separator, and a pattern without
\* them matches as when the option is off, for filesystem candidates and
\* for archive entries of delete and copy mode.
BoundaryKeptForEveryName ==
    FilteredByOnePattern =>
        LET p == CHOOSE q \in fArgs.exclude : TRUE
        IN IF HasWildcard(p)
           THEN OnePatternMatched => GlobMatchesWithinSegments(p, fName)
           ELSE OnePatternMatched <=> fName = p

(***************************************************************************)
(* Filesystem candidates                                                   *)
(***************************************************************************)
\* The name passes the include and exclude lists: the include list is empty
\* or some include pattern matches, and no exclude pattern matches.
NameSelected(name) ==
    /\ \/ cArgs.include = {}
       \/ \E p \in cArgs.include : BoundaryMatch(name, p, cArgs)
    /\ ~\E p \in cArgs.exclude : BoundaryMatch(name, p, cArgs)

FsCandidates == {name \in DOMAIN cFiles : ~cFiles[name].zip_entry}

DateInRange(m) ==
    /\ cArgs.after_date.some => m >= cArgs.after_date.val
    /\ cArgs.before_date.some => m < cArgs.before_date.val

\* C20: a filesystem candidate with modified-date m (and a selected name) is
\* kept exactly when m >= after_date (if given) and m < before_date (if
\* given); the kept dates form [after_date, before_date).
DateFilterHalfOpen ==
    cPc = "returned" =>
        \A name \in FsCandidates :
            (cFiles[name].modified.some /\ NameSelected(name)) =>
                (name \in DOMAIN cResult
                    <=> DateInRange(cFiles[name].modified.val))

\* With after_date = 2 and before_date = 3 the candidate of day 2 was kept
\* and the candidate of day 3 was dropped.
KeptAfterDroppedBefore ==
    /\ cPc = "returned"
    /\ cArgs.after_date = Some(2)
    /\ cArgs.before_date = Some(3)
    /\ cArgs.include = {} /\ cArgs.exclude = {}
    /\ FsCandidates = CandidateNames
    /\ cFiles[<<"a">>].modified = Some(2)
    /\ cFiles[<<"/", "a">>].modified = Some(3)
    /\ DOMAIN cResult = {<<"a">>}

(***************************************************************************)
(* safe_move_file: what every return leaves behind                         *)
(***************************************************************************)
\* C25: on success the complete staged content is at the destination and
\* the source is gone; on every error return it is still at the source.
StagedContentNeverLost ==
    /\ mvPc = "ok" => (fsTo = mvStaged /\ fsFrom = Absent)
    /\ MoveReturnedErr => fsFrom = mvStaged

\* The removal of the source failed after a complete copy and the copy was
\* cleaned away: the staged content is at the source only.
StagedKeptAfterFailedRemoval ==
    /\ mvPc = "err_remove"
    /\ fsTo = Absent
    /\ fsFrom = mvStaged
    /\ Len(mvStaged.data) = MaxStagedChunks

\* C26: when the rename fails with an error other than the cross-device
\* error the function returns an error with the source and the destination
\* as they were: nothing was copied, nothing was removed.
OtherRenameErrorTouchesNothing ==
    mvPc = "err_rename" => (fsFrom = mvStaged /\ fsTo = mvOrig)

\* The rename failed over an existing archive, which is still in place.
RenameFailedOverExistingArchive ==
    /\ mvPc = "err_rename"
    /\ mvOrig.exists
    /\ fsTo = mvOrig
    /\ fsFrom.exists

(***************************************************************************)
(* Directory entries                                                       *)
(***************************************************************************)
\* C24: after any sequence of set_file_path calls, if the last path is a
\* directory the options have method Stored, DOS attribute bit 0x10 set,
\* uncompress_size = 0 and crc32 = 0.
DirectoryOptionsAreEmpty ==
    (oLast = "set_file_path" /\ oPath.kind = "dir") =>
        /\ opts.compression_method = "Stored"
        /\ (opts.external_attr.dos \div 16) % 2 = 1
        /\ opts.uncompress_size = 0
        /\ opts.crc32 = 0

(***************************************************************************)
(* The sizes of an archive entry                                           *)
(***************************************************************************)
\* C27: the sizes ZipFile::options() reports equal the true sizes
\* origin_size() and compressed_size() return, ZIP64 entries included.
OptionsReportTrueSizes ==
    zOptions.set =>
        /\ zOptions.uncompress_size = origin_size(zHdr)
        /\ zOptions.compress_size = compressed_size(zHdr)

(***************************************************************************)
(* Compression method codes                                                *)
(***************************************************************************)
\* C28: decoding the code of Stored, Deflated or Bzip2 gives the method
\* back, and a code outside {0, 8, 12} is not decoded as a supported method.
MethodCodeRoundTrips ==
    kPc = "decoded" =>
        /\ kWritten \in CompressionMethods => kMethod = kWritten
        /\ kCode \notin {0, 8, 12} => kMethod \notin CompressionMethods

(***************************************************************************)
(* Command selection                                                       *)
(***************************************************************************)
AnyUpdateFlag == mArgs.update \/ mArgs.filesync \/ mArgs.freshen

\* C30: the command is chosen by fixed priority: delete, list, update (any
\* of -u, --FS, -f), copy, test (Add with file arguments, Test without),
\* fix, adjust, and Add when none applies.
CommandByFixedPriority ==
    mPc \in {"parsed", "planned"} =>
        /\ mArgs.delete => mArgs.command = "Delete"
        /\ (~mArgs.delete /\ mArgs.list) => mArgs.command = "List"
        /\ (~mArgs.delete /\ ~mArgs.list /\ AnyUpdateFlag)
              => mArgs.command = "Update"
        /\ (~mArgs.delete /\ ~mArgs.list /\ ~AnyUpdateFlag /\ mArgs.copy)
              => mArgs.command = "Copy"
        /\ (~mArgs.delete /\ ~mArgs.list /\ ~AnyUpdateFlag /\ ~mArgs.copy
              /\ mArgs.test)
              => mArgs.command = (IF mArgs.has_files THEN "Add" ELSE "Test")
        /\ (~mArgs.delete /\ ~mArgs.list /\ ~AnyUpdateFlag /\ ~mArgs.copy
              /\ ~mArgs.test /\ mArgs.fix)
              => mArgs.command = "Fix"
        /\ (~mArgs.delete /\ ~mArgs.list /\ ~AnyUpdateFlag /\ ~mArgs.copy
              /\ ~mArgs.test /\ ~mArgs.fix /\ mArgs.adjust)
              => mArgs.command = "Adjust"
        /\ (~mArgs.delete /\ ~mArgs.list /\ ~AnyUpdateFlag /\ ~mArgs.copy
              /\ ~mArgs.test /\ ~mArgs.fix /\ ~mArgs.adjust)
              => mArgs.command = "Add"

\* With -d, a list flag, -T, -F and -A all given, Delete was selected.
DeleteWinsOverEverything ==
    /\ mPc = "parsed"
    /\ mArgs.delete /\ mArgs.list /\ mArgs.test /\ mArgs.fix /\ mArgs.adjust
    /\ mArgs.command = "Delete"

InvalidPatternNeverSelects ==
    (gPc = "returned" /\ ~gNoWildcards) => RegexCompiles(RegexText(gPattern))

(***************************************************************************)
(* Split sizes on the command line                                         *)
(***************************************************************************)
\* An ASCII decimal number followed by at most one of k, m, g, t in either
\* case.
WellFormedSize(s) ==
    LET n == Len(s)
        digits(t) == Len(t) > 0 /\ \A i \in 1..Len(t) :
                        t[i] \in {"0", "1", "2", "3", "4", "5", "6", "7", "8", "9"}
    IN \/ digits(s)
       \/ n > 1 /\ s[n] \in {"k", "K", "m", "M", "g", "G", "t", "T"}
                /\ digits(SubSeq(s, 1, n - 1))

\* The number times its multiplier, as a mathematical integer.
StatedSize(s) ==
    LET n == Len(s)
        last == s[n]
        unit == IF last \in {"k", "K"} THEN 1
                ELSE IF last \in {"g", "G"} THEN 3
                ELSE IF last \in {"t", "T"} THEN 4
                ELSE 2
        num == IF last \in {"k", "K", "m", "M", "g", "G", "t", "T"}
               THEN SubSeq(s, 1, n - 1) ELSE s
    IN DecimalValue(num) * Pow(Kilo, unit)

\* C23: the arguments accepted are exactly a decimal number followed by at
\* most one of k, m, g, t (either case) whose size is at least the minimum,
\* and the size returned is the number times its multiplier (1024^2 when
\* there is none).
AcceptsExactlySizesAboveMinimum ==
    qPc = "returned" =>
        /\ qResult.kind = "ok" <=>
              (WellFormedSize(qArg) /\ StatedSize(qArg) >= qMin)
        /\ qResult.kind = "ok" => qResult.size = StatedSize(qArg)

\* C29: an accepted argument returns the exact product, and an argument
\* whose product does not fit in 64 bits is rejected with an error.
ExactProductOrRejected ==
    (qPc = "returned" /\ WellFormedSize(qArg)) =>
        /\ qResult.kind = "ok" => qResult.size = StatedSize(qArg)
        /\ StatedSize(qArg) > U64Max => qResult.kind = "err"

====
